---- MODULE Spec2Model ----
(***************************************************************************)
(* Tourenliste PDF -> Excel converter (src/app.py).                        *)
(*                                                                         *)
(* A text (Python str) is the sequence of the code points of its           *)
(* characters (ord), so "KB" is <<75, 66>>; positions are 1-based, and an  *)
(* exclusive end position e denotes text[.. e-1].                          *)
(* Every regular expression of the source is written out as the matcher    *)
(* the backtracking engine of Python's re realises for it.                 *)
(***************************************************************************)
EXTENDS Integers, Sequences, FiniteSets, TLC

VARIABLES
    pages,      \* pdf.pages: per page the text extract_text() gives (<<>> for none)
    pg,         \* number of pages already read by the loop of parse_tourenliste
    all_lines,  \* parse_tourenliste: all_lines
    li,         \* parse_records_from_text: number of lines already consumed
    buf,        \* parse_records_from_text: buf
    blocks,     \* parse_records_from_text: blocks
    rows,       \* parse_tourenliste: rows
    df,         \* parse_tourenliste: the DataFrame returned (its rows, in order)
    ui,         \* what the Streamlit page shows after the run
    pc,         \* position of the run
    text,       \* argument of the function applied on its own
    out,        \* extract_phones: out
    result      \* value the function applied on its own returned

vars == <<pages, pg, all_lines, li, buf, blocks, rows, df, ui, pc, text, out, result>>

-----------------------------------------------------------------------------
(* Characters the source names *)

\* " "
Space == 32

\* "\n"
LineBreak == 10

\* "/"
Slash == 47

\* "."
Dot == 46

\* "+"
Plus == 43

\* "0"
Zero == 48

-----------------------------------------------------------------------------
(* Character classes of Python's re on str patterns: they are those of Unicode *)

\* \d: the ranges of the decimal digits (str.isdecimal) of every script
DigitRanges == {
    <<48,57>>, <<1632,1641>>, <<1776,1785>>, <<1984,1993>>, <<2406,2415>>, <<2534,2543>>,
    <<2662,2671>>, <<2790,2799>>, <<2918,2927>>, <<3046,3055>>, <<3174,3183>>, <<3302,3311>>,
    <<3430,3439>>, <<3558,3567>>, <<3664,3673>>, <<3792,3801>>, <<3872,3881>>, <<4160,4169>>,
    <<4240,4249>>, <<6112,6121>>, <<6160,6169>>, <<6470,6479>>, <<6608,6617>>, <<6784,6793>>,
    <<6800,6809>>, <<6992,7001>>, <<7088,7097>>, <<7232,7241>>, <<7248,7257>>, <<42528,42537>>,
    <<43216,43225>>, <<43264,43273>>, <<43472,43481>>, <<43504,43513>>, <<43600,43609>>,
    <<44016,44025>>, <<65296,65305>>, <<66720,66729>>, <<68912,68921>>, <<69734,69743>>,
    <<69872,69881>>, <<69942,69951>>, <<70096,70105>>, <<70384,70393>>, <<70736,70745>>,
    <<70864,70873>>, <<71248,71257>>, <<71360,71369>>, <<71472,71481>>, <<71904,71913>>,
    <<72016,72025>>, <<72784,72793>>, <<73040,73049>>, <<73120,73129>>, <<92768,92777>>,
    <<92864,92873>>, <<93008,93017>>, <<120782,120831>>, <<123200,123209>>, <<123632,123641>>,
    <<125264,125273>>, <<130032,130041>> }

Digits == UNION {r[1]..r[2] : r \in DigitRanges}

\* \s, and the characters str.strip() and str.split() take as whitespace (str.isspace)
SpaceRanges == {
    <<9,13>>, <<28,32>>, <<133,133>>, <<160,160>>, <<5760,5760>>, <<8192,8202>>, <<8232,8233>>,
    <<8239,8239>>, <<8287,8287>>, <<12288,12288>> }

Spaces == UNION {r[1]..r[2] : r \in SpaceRanges}

\* \w: the ranges of the alphanumeric characters (str.isalnum) of every script, and "_"
WordRanges == {
    <<48,57>>, <<65,90>>, <<95,95>>, <<97,122>>, <<170,170>>, <<178,179>>, <<181,181>>,
    <<185,186>>, <<188,190>>, <<192,214>>, <<216,246>>, <<248,705>>, <<710,721>>, <<736,740>>,
    <<748,748>>, <<750,750>>, <<880,884>>, <<886,887>>, <<890,893>>, <<895,895>>, <<902,902>>,
    <<904,906>>, <<908,908>>, <<910,929>>, <<931,1013>>, <<1015,1153>>, <<1162,1327>>,
    <<1329,1366>>, <<1369,1369>>, <<1376,1416>>, <<1488,1514>>, <<1519,1522>>, <<1568,1610>>,
    <<1632,1641>>, <<1646,1647>>, <<1649,1747>>, <<1749,1749>>, <<1765,1766>>, <<1774,1788>>,
    <<1791,1791>>, <<1808,1808>>, <<1810,1839>>, <<1869,1957>>, <<1969,1969>>, <<1984,2026>>,
    <<2036,2037>>, <<2042,2042>>, <<2048,2069>>, <<2074,2074>>, <<2084,2084>>, <<2088,2088>>,
    <<2112,2136>>, <<2144,2154>>, <<2160,2183>>, <<2185,2190>>, <<2208,2249>>, <<2308,2361>>,
    <<2365,2365>>, <<2384,2384>>, <<2392,2401>>, <<2406,2415>>, <<2417,2432>>, <<2437,2444>>,
    <<2447,2448>>, <<2451,2472>>, <<2474,2480>>, <<2482,2482>>, <<2486,2489>>, <<2493,2493>>,
    <<2510,2510>>, <<2524,2525>>, <<2527,2529>>, <<2534,2545>>, <<2548,2553>>, <<2556,2556>>,
    <<2565,2570>>, <<2575,2576>>, <<2579,2600>>, <<2602,2608>>, <<2610,2611>>, <<2613,2614>>,
    <<2616,2617>>, <<2649,2652>>, <<2654,2654>>, <<2662,2671>>, <<2674,2676>>, <<2693,2701>>,
    <<2703,2705>>, <<2707,2728>>, <<2730,2736>>, <<2738,2739>>, <<2741,2745>>, <<2749,2749>>,
    <<2768,2768>>, <<2784,2785>>, <<2790,2799>>, <<2809,2809>>, <<2821,2828>>, <<2831,2832>>,
    <<2835,2856>>, <<2858,2864>>, <<2866,2867>>, <<2869,2873>>, <<2877,2877>>, <<2908,2909>>,
    <<2911,2913>>, <<2918,2927>>, <<2929,2935>>, <<2947,2947>>, <<2949,2954>>, <<2958,2960>>,
    <<2962,2965>>, <<2969,2970>>, <<2972,2972>>, <<2974,2975>>, <<2979,2980>>, <<2984,2986>>,
    <<2990,3001>>, <<3024,3024>>, <<3046,3058>>, <<3077,3084>>, <<3086,3088>>, <<3090,3112>>,
    <<3114,3129>>, <<3133,3133>>, <<3160,3162>>, <<3165,3165>>, <<3168,3169>>, <<3174,3183>>,
    <<3192,3198>>, <<3200,3200>>, <<3205,3212>>, <<3214,3216>>, <<3218,3240>>, <<3242,3251>>,
    <<3253,3257>>, <<3261,3261>>, <<3293,3294>>, <<3296,3297>>, <<3302,3311>>, <<3313,3314>>,
    <<3332,3340>>, <<3342,3344>>, <<3346,3386>>, <<3389,3389>>, <<3406,3406>>, <<3412,3414>>,
    <<3416,3425>>, <<3430,3448>>, <<3450,3455>>, <<3461,3478>>, <<3482,3505>>, <<3507,3515>>,
    <<3517,3517>>, <<3520,3526>>, <<3558,3567>>, <<3585,3632>>, <<3634,3635>>, <<3648,3654>>,
    <<3664,3673>>, <<3713,3714>>, <<3716,3716>>, <<3718,3722>>, <<3724,3747>>, <<3749,3749>>,
    <<3751,3760>>, <<3762,3763>>, <<3773,3773>>, <<3776,3780>>, <<3782,3782>>, <<3792,3801>>,
    <<3804,3807>>, <<3840,3840>>, <<3872,3891>>, <<3904,3911>>, <<3913,3948>>, <<3976,3980>>,
    <<4096,4138>>, <<4159,4169>>, <<4176,4181>>, <<4186,4189>>, <<4193,4193>>, <<4197,4198>>,
    <<4206,4208>>, <<4213,4225>>, <<4238,4238>>, <<4240,4249>>, <<4256,4293>>, <<4295,4295>>,
    <<4301,4301>>, <<4304,4346>>, <<4348,4680>>, <<4682,4685>>, <<4688,4694>>, <<4696,4696>>,
    <<4698,4701>>, <<4704,4744>>, <<4746,4749>>, <<4752,4784>>, <<4786,4789>>, <<4792,4798>>,
    <<4800,4800>>, <<4802,4805>>, <<4808,4822>>, <<4824,4880>>, <<4882,4885>>, <<4888,4954>>,
    <<4969,4988>>, <<4992,5007>>, <<5024,5109>>, <<5112,5117>>, <<5121,5740>>, <<5743,5759>>,
    <<5761,5786>>, <<5792,5866>>, <<5870,5880>>, <<5888,5905>>, <<5919,5937>>, <<5952,5969>>,
    <<5984,5996>>, <<5998,6000>>, <<6016,6067>>, <<6103,6103>>, <<6108,6108>>, <<6112,6121>>,
    <<6128,6137>>, <<6160,6169>>, <<6176,6264>>, <<6272,6276>>, <<6279,6312>>, <<6314,6314>>,
    <<6320,6389>>, <<6400,6430>>, <<6470,6509>>, <<6512,6516>>, <<6528,6571>>, <<6576,6601>>,
    <<6608,6618>>, <<6656,6678>>, <<6688,6740>>, <<6784,6793>>, <<6800,6809>>, <<6823,6823>>,
    <<6917,6963>>, <<6981,6988>>, <<6992,7001>>, <<7043,7072>>, <<7086,7141>>, <<7168,7203>>,
    <<7232,7241>>, <<7245,7293>>, <<7296,7304>>, <<7312,7354>>, <<7357,7359>>, <<7401,7404>>,
    <<7406,7411>>, <<7413,7414>>, <<7418,7418>>, <<7424,7615>>, <<7680,7957>>, <<7960,7965>>,
    <<7968,8005>>, <<8008,8013>>, <<8016,8023>>, <<8025,8025>>, <<8027,8027>>, <<8029,8029>>,
    <<8031,8061>>, <<8064,8116>>, <<8118,8124>>, <<8126,8126>>, <<8130,8132>>, <<8134,8140>>,
    <<8144,8147>>, <<8150,8155>>, <<8160,8172>>, <<8178,8180>>, <<8182,8188>>, <<8304,8305>>,
    <<8308,8313>>, <<8319,8329>>, <<8336,8348>>, <<8450,8450>>, <<8455,8455>>, <<8458,8467>>,
    <<8469,8469>>, <<8473,8477>>, <<8484,8484>>, <<8486,8486>>, <<8488,8488>>, <<8490,8493>>,
    <<8495,8505>>, <<8508,8511>>, <<8517,8521>>, <<8526,8526>>, <<8528,8585>>, <<9312,9371>>,
    <<9450,9471>>, <<10102,10131>>, <<11264,11492>>, <<11499,11502>>, <<11506,11507>>,
    <<11517,11517>>, <<11520,11557>>, <<11559,11559>>, <<11565,11565>>, <<11568,11623>>,
    <<11631,11631>>, <<11648,11670>>, <<11680,11686>>, <<11688,11694>>, <<11696,11702>>,
    <<11704,11710>>, <<11712,11718>>, <<11720,11726>>, <<11728,11734>>, <<11736,11742>>,
    <<11823,11823>>, <<12293,12295>>, <<12321,12329>>, <<12337,12341>>, <<12344,12348>>,
    <<12353,12438>>, <<12445,12447>>, <<12449,12538>>, <<12540,12543>>, <<12549,12591>>,
    <<12593,12686>>, <<12690,12693>>, <<12704,12735>>, <<12784,12799>>, <<12832,12841>>,
    <<12872,12879>>, <<12881,12895>>, <<12928,12937>>, <<12977,12991>>, <<13312,19903>>,
    <<19968,42124>>, <<42192,42237>>, <<42240,42508>>, <<42512,42539>>, <<42560,42606>>,
    <<42623,42653>>, <<42656,42735>>, <<42775,42783>>, <<42786,42888>>, <<42891,42954>>,
    <<42960,42961>>, <<42963,42963>>, <<42965,42969>>, <<42994,43009>>, <<43011,43013>>,
    <<43015,43018>>, <<43020,43042>>, <<43056,43061>>, <<43072,43123>>, <<43138,43187>>,
    <<43216,43225>>, <<43250,43255>>, <<43259,43259>>, <<43261,43262>>, <<43264,43301>>,
    <<43312,43334>>, <<43360,43388>>, <<43396,43442>>, <<43471,43481>>, <<43488,43492>>,
    <<43494,43518>>, <<43520,43560>>, <<43584,43586>>, <<43588,43595>>, <<43600,43609>>,
    <<43616,43638>>, <<43642,43642>>, <<43646,43695>>, <<43697,43697>>, <<43701,43702>>,
    <<43705,43709>>, <<43712,43712>>, <<43714,43714>>, <<43739,43741>>, <<43744,43754>>,
    <<43762,43764>>, <<43777,43782>>, <<43785,43790>>, <<43793,43798>>, <<43808,43814>>,
    <<43816,43822>>, <<43824,43866>>, <<43868,43881>>, <<43888,44002>>, <<44016,44025>>,
    <<44032,55203>>, <<55216,55238>>, <<55243,55291>>, <<63744,64109>>, <<64112,64217>>,
    <<64256,64262>>, <<64275,64279>>, <<64285,64285>>, <<64287,64296>>, <<64298,64310>>,
    <<64312,64316>>, <<64318,64318>>, <<64320,64321>>, <<64323,64324>>, <<64326,64433>>,
    <<64467,64829>>, <<64848,64911>>, <<64914,64967>>, <<65008,65019>>, <<65136,65140>>,
    <<65142,65276>>, <<65296,65305>>, <<65313,65338>>, <<65345,65370>>, <<65382,65470>>,
    <<65474,65479>>, <<65482,65487>>, <<65490,65495>>, <<65498,65500>>, <<65536,65547>>,
    <<65549,65574>>, <<65576,65594>>, <<65596,65597>>, <<65599,65613>>, <<65616,65629>>,
    <<65664,65786>>, <<65799,65843>>, <<65856,65912>>, <<65930,65931>>, <<66176,66204>>,
    <<66208,66256>>, <<66273,66299>>, <<66304,66339>>, <<66349,66378>>, <<66384,66421>>,
    <<66432,66461>>, <<66464,66499>>, <<66504,66511>>, <<66513,66517>>, <<66560,66717>>,
    <<66720,66729>>, <<66736,66771>>, <<66776,66811>>, <<66816,66855>>, <<66864,66915>>,
    <<66928,66938>>, <<66940,66954>>, <<66956,66962>>, <<66964,66965>>, <<66967,66977>>,
    <<66979,66993>>, <<66995,67001>>, <<67003,67004>>, <<67072,67382>>, <<67392,67413>>,
    <<67424,67431>>, <<67456,67461>>, <<67463,67504>>, <<67506,67514>>, <<67584,67589>>,
    <<67592,67592>>, <<67594,67637>>, <<67639,67640>>, <<67644,67644>>, <<67647,67669>>,
    <<67672,67702>>, <<67705,67742>>, <<67751,67759>>, <<67808,67826>>, <<67828,67829>>,
    <<67835,67867>>, <<67872,67897>>, <<67968,68023>>, <<68028,68047>>, <<68050,68096>>,
    <<68112,68115>>, <<68117,68119>>, <<68121,68149>>, <<68160,68168>>, <<68192,68222>>,
    <<68224,68255>>, <<68288,68295>>, <<68297,68324>>, <<68331,68335>>, <<68352,68405>>,
    <<68416,68437>>, <<68440,68466>>, <<68472,68497>>, <<68521,68527>>, <<68608,68680>>,
    <<68736,68786>>, <<68800,68850>>, <<68858,68899>>, <<68912,68921>>, <<69216,69246>>,
    <<69248,69289>>, <<69296,69297>>, <<69376,69415>>, <<69424,69445>>, <<69457,69460>>,
    <<69488,69505>>, <<69552,69579>>, <<69600,69622>>, <<69635,69687>>, <<69714,69743>>,
    <<69745,69746>>, <<69749,69749>>, <<69763,69807>>, <<69840,69864>>, <<69872,69881>>,
    <<69891,69926>>, <<69942,69951>>, <<69956,69956>>, <<69959,69959>>, <<69968,70002>>,
    <<70006,70006>>, <<70019,70066>>, <<70081,70084>>, <<70096,70106>>, <<70108,70108>>,
    <<70113,70132>>, <<70144,70161>>, <<70163,70187>>, <<70272,70278>>, <<70280,70280>>,
    <<70282,70285>>, <<70287,70301>>, <<70303,70312>>, <<70320,70366>>, <<70384,70393>>,
    <<70405,70412>>, <<70415,70416>>, <<70419,70440>>, <<70442,70448>>, <<70450,70451>>,
    <<70453,70457>>, <<70461,70461>>, <<70480,70480>>, <<70493,70497>>, <<70656,70708>>,
    <<70727,70730>>, <<70736,70745>>, <<70751,70753>>, <<70784,70831>>, <<70852,70853>>,
    <<70855,70855>>, <<70864,70873>>, <<71040,71086>>, <<71128,71131>>, <<71168,71215>>,
    <<71236,71236>>, <<71248,71257>>, <<71296,71338>>, <<71352,71352>>, <<71360,71369>>,
    <<71424,71450>>, <<71472,71483>>, <<71488,71494>>, <<71680,71723>>, <<71840,71922>>,
    <<71935,71942>>, <<71945,71945>>, <<71948,71955>>, <<71957,71958>>, <<71960,71983>>,
    <<71999,71999>>, <<72001,72001>>, <<72016,72025>>, <<72096,72103>>, <<72106,72144>>,
    <<72161,72161>>, <<72163,72163>>, <<72192,72192>>, <<72203,72242>>, <<72250,72250>>,
    <<72272,72272>>, <<72284,72329>>, <<72349,72349>>, <<72368,72440>>, <<72704,72712>>,
    <<72714,72750>>, <<72768,72768>>, <<72784,72812>>, <<72818,72847>>, <<72960,72966>>,
    <<72968,72969>>, <<72971,73008>>, <<73030,73030>>, <<73040,73049>>, <<73056,73061>>,
    <<73063,73064>>, <<73066,73097>>, <<73112,73112>>, <<73120,73129>>, <<73440,73458>>,
    <<73648,73648>>, <<73664,73684>>, <<73728,74649>>, <<74752,74862>>, <<74880,75075>>,
    <<77712,77808>>, <<77824,78894>>, <<82944,83526>>, <<92160,92728>>, <<92736,92766>>,
    <<92768,92777>>, <<92784,92862>>, <<92864,92873>>, <<92880,92909>>, <<92928,92975>>,
    <<92992,92995>>, <<93008,93017>>, <<93019,93025>>, <<93027,93047>>, <<93053,93071>>,
    <<93760,93846>>, <<93952,94026>>, <<94032,94032>>, <<94099,94111>>, <<94176,94177>>,
    <<94179,94179>>, <<94208,100343>>, <<100352,101589>>, <<101632,101640>>, <<110576,110579>>,
    <<110581,110587>>, <<110589,110590>>, <<110592,110882>>, <<110928,110930>>,
    <<110948,110951>>, <<110960,111355>>, <<113664,113770>>, <<113776,113788>>,
    <<113792,113800>>, <<113808,113817>>, <<119520,119539>>, <<119648,119672>>,
    <<119808,119892>>, <<119894,119964>>, <<119966,119967>>, <<119970,119970>>,
    <<119973,119974>>, <<119977,119980>>, <<119982,119993>>, <<119995,119995>>,
    <<119997,120003>>, <<120005,120069>>, <<120071,120074>>, <<120077,120084>>,
    <<120086,120092>>, <<120094,120121>>, <<120123,120126>>, <<120128,120132>>,
    <<120134,120134>>, <<120138,120144>>, <<120146,120485>>, <<120488,120512>>,
    <<120514,120538>>, <<120540,120570>>, <<120572,120596>>, <<120598,120628>>,
    <<120630,120654>>, <<120656,120686>>, <<120688,120712>>, <<120714,120744>>,
    <<120746,120770>>, <<120772,120779>>, <<120782,120831>>, <<122624,122654>>,
    <<123136,123180>>, <<123191,123197>>, <<123200,123209>>, <<123214,123214>>,
    <<123536,123565>>, <<123584,123627>>, <<123632,123641>>, <<124896,124902>>,
    <<124904,124907>>, <<124909,124910>>, <<124912,124926>>, <<124928,125124>>,
    <<125127,125135>>, <<125184,125251>>, <<125259,125259>>, <<125264,125273>>,
    <<126065,126123>>, <<126125,126127>>, <<126129,126132>>, <<126209,126253>>,
    <<126255,126269>>, <<126464,126467>>, <<126469,126495>>, <<126497,126498>>,
    <<126500,126500>>, <<126503,126503>>, <<126505,126514>>, <<126516,126519>>,
    <<126521,126521>>, <<126523,126523>>, <<126530,126530>>, <<126535,126535>>,
    <<126537,126537>>, <<126539,126539>>, <<126541,126543>>, <<126545,126546>>,
    <<126548,126548>>, <<126551,126551>>, <<126553,126553>>, <<126555,126555>>,
    <<126557,126557>>, <<126559,126559>>, <<126561,126562>>, <<126564,126564>>,
    <<126567,126570>>, <<126572,126578>>, <<126580,126583>>, <<126585,126588>>,
    <<126590,126590>>, <<126592,126601>>, <<126603,126619>>, <<126625,126627>>,
    <<126629,126633>>, <<126635,126651>>, <<127232,127244>>, <<130032,130041>>,
    <<131072,173791>>, <<173824,177976>>, <<177984,178205>>, <<178208,183969>>,
    <<183984,191456>>, <<194560,195101>>, <<196608,201546>> }

WordChars == UNION {r[1]..r[2] : r \in WordRanges}

\* [A-Za-zÄÖÜäöü\-]
Alpha == (65..90) \cup (97..122) \cup {196, 214, 220, 228, 246, 252} \cup {45}

\* the characters a letter p of a pattern matches under re.IGNORECASE, p being
\* one of "a".."z" or "ß" (the letters of the patterns of lines 83 and 192): p,
\* its upper-case form, and the characters whose lower- or upper-case form is
\* that of p: "İ" and "ı" for "i", "ſ" for "s", the Kelvin sign for "k", "ẞ" for "ß"
IgnoreCase(p) ==
    {p} \cup (IF p \in 97..122 THEN {p - 32} ELSE {})
        \cup (IF p = 105 THEN {304, 305} ELSE {})
        \cup (IF p = 115 THEN {383} ELSE {})
        \cup (IF p = 107 THEN {8490} ELSE {})
        \cup (IF p = 223 THEN {7838} ELSE {})

\* [A-Za-zÄÖÜäöü\-] under re.IGNORECASE
AlphaIgnoreCase == Alpha \cup {304, 305, 383, 8490}

-----------------------------------------------------------------------------
(* str helpers *)

Max(S) == CHOOSE x \in S : \A y \in S : y <= x

Min(S) == CHOOSE x \in S : \A y \in S : x <= y

\* the first position from i on where P holds of it, 0 when there is none,
\* is written Min of the set of such positions throughout

\* exclusive end of the maximal run of characters of cs that starts at i
RECURSIVE RunEnd(_, _, _)
RunEnd(s, i, cs) ==
    IF i <= Len(s) /\ s[i] \in cs THEN RunEnd(s, i + 1, cs) ELSE i

\* text[i-1:] in 1-based positions
From(s, i) == SubSeq(s, i, Len(s))

lstrip(s, cs) == SubSeq(s, RunEnd(s, 1, cs), Len(s))

rstrip(s, cs) == SubSeq(s, 1, Max({0} \cup {k \in 1..Len(s) : s[k] \notin cs}))

\* str.strip(chars)
strip_chars(s, cs) == rstrip(lstrip(s, cs), cs)

\* str.strip()
strip(s) == strip_chars(s, Spaces)

StartsWithAt(s, i, p) ==
    /\ i >= 1
    /\ i + Len(p) - 1 <= Len(s)
    /\ \A k \in 1..Len(p) : s[i + k - 1] = p[k]

\* str.startswith
startswith(s, p) == StartsWithAt(s, 1, p)

\* p in s
Contains(s, p) == \E i \in 1..(Len(s) - Len(p) + 1) : StartsWithAt(s, i, p)

\* str.find, 1-based; 0 when p does not occur
find(s, p) ==
    LET hits == {i \in 1..(Len(s) - Len(p) + 1) : StartsWithAt(s, i, p)} IN
    IF hits = {} THEN 0 ELSE Min(hits)

\* re.sub(r"\s+", " ", s): of every run of whitespace the first character stays, as " "
CollapseSpaces(s) ==
    LET Stays(k) == s[k] \notin Spaces \/ k = 1 \/ s[k - 1] \notin Spaces
        kept == SelectSeq([k \in 1..Len(s) |-> k], Stays)
    IN  [j \in 1..Len(kept) |-> IF s[kept[j]] \in Spaces THEN Space ELSE s[kept[j]]]

normalize_spaces(s) == CollapseSpaces(strip(s))

\* exclusive end of the maximal run of characters outside cs that starts at i
RunEndNot(s, i, cs) ==
    LET stops == {k \in i..Len(s) : s[k] \in cs} IN
    IF i > Len(s) THEN i
    ELSE IF stops = {} THEN Len(s) + 1
    ELSE Min(stops)

\* str.split("\n"): one line more than there are line breaks
RECURSIVE SplitFrom(_, _)
SplitFrom(s, i) ==
    LET n == RunEndNot(s, i, {LineBreak}) IN
    IF n > Len(s) THEN <<SubSeq(s, i, Len(s))>>
    ELSE <<SubSeq(s, i, n - 1)>> \o SplitFrom(s, n + 1)

split_lines(s) == SplitFrom(s, 1)

\* len(s.split()) counted from position i: the number of maximal runs of non-whitespace
RECURSIVE CountWordsFrom(_, _)
CountWordsFrom(s, i) ==
    LET a == RunEnd(s, i, Spaces) IN
    IF a > Len(s) THEN 0
    ELSE 1 + CountWordsFrom(s, RunEndNot(s, a, Spaces))

\* sep.join(parts)
RECURSIVE join(_, _)
join(sep, parts) ==
    IF parts = <<>> THEN <<>>
    ELSE IF Len(parts) = 1 THEN parts[1]
    ELSE parts[1] \o sep \o join(sep, Tail(parts))

\* \b at position i: between s[i-1] and s[i]
IsWordAt(s, i) == i >= 1 /\ i <= Len(s) /\ s[i] \in WordChars

WordBoundary(s, i) == IsWordAt(s, i - 1) # IsWordAt(s, i)

AllSpacesFrom(s, i) == RunEnd(s, i, Spaces) = Len(s) + 1

-----------------------------------------------------------------------------
\* Robust Parser: record-based

\* Reihenfolge wichtig (DGB/GB zuerst)
\* ARTICLE_TOKENS == << "DGB 2023", "GB 2023", "KB" >>
ARTICLE_TOKENS == << <<68,71,66,32,50,48,50,51>>, <<71,66,32,50,48,50,51>>, <<75,66>> >>

\* \d[\d\s]{7,}\d at position j: exclusive end of the match, 0 for none.
\* The greedy run of [\d\s] gives back characters until a digit follows:
\* the match ends with the last digit of the run that has at least seven
\* characters of the run before it.
PhoneBodyAt(s, j) ==
    IF j <= Len(s) /\ s[j] \in Digits
    THEN LET r == RunEnd(s, j + 1, Digits \cup Spaces)
             ends == {k \in (j + 1 + 7)..(r - 1) : s[k] \in Digits}
         IN  IF ends # {} THEN Max(ends) + 1 ELSE 0
    ELSE 0

\* (?:\+|00)?\d[\d\s]{7,}\d at position i: the optional prefix is tried
\* first, and left out when the rest does not match after it.
PhoneAt(s, i) ==
    LET plus == IF StartsWithAt(s, i, <<Plus>>) THEN PhoneBodyAt(s, i + 1) ELSE 0
        zeros == IF StartsWithAt(s, i, <<Zero, Zero>>) THEN PhoneBodyAt(s, i + 2) ELSE 0
    IN  IF plus # 0 THEN plus
        ELSE IF zeros # 0 THEN zeros
        ELSE PhoneBodyAt(s, i)

\* re.search of the phone pattern from position i: start of the first match, 0 for none
PhoneSearchFrom(s, i) ==
    LET hits == {k \in i..Len(s) : PhoneAt(s, k) # 0} IN
    IF hits = {} THEN 0 ELSE Min(hits)

\* re.findall of the phone pattern: the non-overlapping matches, left to right
RECURSIVE PhoneFindAllFrom(_, _)
PhoneFindAllFrom(s, i) ==
    LET b == PhoneSearchFrom(s, i) IN
    IF b = 0 THEN <<>>
    ELSE <<SubSeq(s, b, PhoneAt(s, b) - 1)>> \o PhoneFindAllFrom(s, PhoneAt(s, b))

phone_findall(s) == PhoneFindAllFrom(s, 1)

\* Duplikate entfernen, Reihenfolge behalten
RECURSIVE DedupKeepOrder(_, _)
DedupKeepOrder(ps, seen) ==
    IF ps = <<>> THEN <<>>
    ELSE IF Head(ps) \in seen THEN DedupKeepOrder(Tail(ps), seen)
    ELSE <<Head(ps)>> \o DedupKeepOrder(Tail(ps), seen \cup {Head(ps)})

\* every phone is appended to out, seen or not
keep_all_phones(phones) == phones

\* seen = set(); out = []; the loop over phones
unique_phones(phones) == DedupKeepOrder(phones, {})

\* extract_phones: the list out before it is joined
phones_out(s) ==
    LET phones == phone_findall(s) IN
    unique_phones([k \in 1..Len(phones) |-> normalize_spaces(phones[k])])

\* extract_phones(s) == join(" / ", phones_out(s))
extract_phones(s) == join(<<32,47,32>>, phones_out(s))

extract_contact_name(s) ==
    LET b == PhoneSearchFrom(s, 1) IN
    IF b = 0 THEN <<>>
    ELSE normalize_spaces(strip_chars(SubSeq(s, 1, b - 1), {Space, Slash}))

\* the tokens tried in the reverse order
RECURSIVE ArticleLastFrom(_, _)
ArticleLastFrom(s, k) ==
    IF k < 1 THEN <<>>
    ELSE IF Contains(s, ARTICLE_TOKENS[k]) THEN ARTICLE_TOKENS[k]
    ELSE ArticleLastFrom(s, k - 1)

extract_article_reversed(s) == ArticleLastFrom(s, Len(ARTICLE_TOKENS))

RECURSIVE ArticleFrom(_, _)
ArticleFrom(s, k) ==
    IF k > Len(ARTICLE_TOKENS) THEN <<>>
    ELSE IF Contains(s, ARTICLE_TOKENS[k]) THEN ARTICLE_TOKENS[k]
    ELSE ArticleFrom(s, k + 1)

extract_article(s) == ArticleFrom(s, 1)

\* exclusive end of the longest [A-Za-z..]+(?:\s+[A-Za-z..]+)* that starts at a
RECURSIVE AlphaWordsEnd(_, _)
AlphaWordsEnd(s, a) ==
    LET e == RunEnd(s, a, Alpha)
        w == RunEnd(s, e, Spaces)
    IN  IF w > e /\ w <= Len(s) /\ s[w] \in Alpha THEN AlphaWordsEnd(s, w) ELSE e

\* \b(\d{4})\s+([A-Za-z..]+(?:\s+[A-Za-z..]+)*)\b at position i.  The
\* words are taken greedily and given back one character at a time until
\* the match ends at a word boundary: it ends at the last position of the
\* longest run of words that follows a letter and is a boundary.
PlzOrtAt(s, i) ==
    LET a == RunEnd(s, i + 4, Spaces)
        m == AlphaWordsEnd(s, a)
        ends == {e \in (a + 1)..m : s[e - 1] \in Alpha /\ WordBoundary(s, e)}
    IN  IF /\ WordBoundary(s, i)
           /\ i + 3 <= Len(s)
           /\ \A k \in i..(i + 3) : s[k] \in Digits
           /\ a > i + 4
           /\ ends # {}
        THEN [ok |-> TRUE, plz |-> SubSeq(s, i, i + 3), ort |-> SubSeq(s, a, Max(ends) - 1)]
        ELSE [ok |-> FALSE, plz |-> <<>>, ort |-> <<>>]

\* re.search of that pattern: the leftmost position that matches
PlzOrtSearch(s) ==
    LET hits == {i \in 1..Len(s) : PlzOrtAt(s, i).ok} IN
    IF hits = {} THEN [ok |-> FALSE, plz |-> <<>>, ort |-> <<>>]
    ELSE PlzOrtAt(s, Min(hits))

split_plz_ort(s) ==
    LET m == PlzOrtSearch(s) IN
    IF ~m.ok THEN <<>>
    ELSE normalize_spaces(m.plz \o <<Space>> \o m.ort)

\* re.search(r"\b\d{4}\b", s): start of the first match, 0 for none
PlzSearch(s) ==
    LET hits == {i \in 1..(Len(s) - 3) :
                    /\ WordBoundary(s, i)
                    /\ \A k \in i..(i + 3) : s[k] \in Digits
                    /\ WordBoundary(s, i + 4)}
    IN  IF hits = {} THEN 0 ELSE Min(hits)

\* STREET_WORDS == << "strasse", "straße", "weg", "platz", "gasse", "ring", "allee" >>
STREET_WORDS == << <<115,116,114,97,115,115,101>>, <<115,116,114,97,223,101>>, <<119,101,103>>, <<112,108,97,116,122>>, <<103,97,115,115,101>>, <<114,105,110,103>>, <<97,108,108,101,101>> >>

\* the literal p at position i under re.IGNORECASE
StartsWithNoCaseAt(s, i, p) ==
    /\ i >= 1
    /\ i + Len(p) - 1 <= Len(s)
    /\ \A k \in 1..Len(p) : s[i + k - 1] \in IgnoreCase(p[k])

\* \s+\d+\w?\b at position q: after the digits the match may take one more
\* word character, and must end at a word boundary.
HouseNumberAt(s, q) ==
    LET w == RunEnd(s, q, Spaces)
        d == RunEnd(s, w, Digits)
    IN  /\ w > q
        /\ d > w
        /\ (~IsWordAt(s, d) \/ ~IsWordAt(s, d + 1))

\* \b([A-Za-z..]+(?:strasse|...|allee))\s+\d+\w?\b at position i, IGNORECASE:
\* some non-empty run of letters from i is followed by a street word and a
\* house number.
StreetWordAt(s, i) ==
    /\ WordBoundary(s, i)
    /\ \E k \in (i + 1)..RunEnd(s, i, AlphaIgnoreCase) :
          \E n \in 1..Len(STREET_WORDS) :
             /\ StartsWithNoCaseAt(s, k, STREET_WORDS[n])
             /\ HouseNumberAt(s, k + Len(STREET_WORDS[n]))

StreetWordSearch(s) ==
    LET hits == {i \in 1..Len(s) : StreetWordAt(s, i)} IN
    IF hits = {} THEN 0 ELSE Min(hits)

\* ([A-Za-z..]+\s+\d+\w?)\s*$ at position i: exclusive end of group 1, 0 for none
WordNumberAt(s, i) ==
    LET a == RunEnd(s, i, Alpha)
        w == RunEnd(s, a, Spaces)
        d == RunEnd(s, w, Digits)
    IN  IF a > i /\ w > a /\ d > w
        THEN IF IsWordAt(s, d) /\ AllSpacesFrom(s, d + 1) THEN d + 1
             ELSE IF AllSpacesFrom(s, d) THEN d
             ELSE 0
        ELSE 0

WordNumberSearch(s) ==
    LET hits == {i \in 1..Len(s) : WordNumberAt(s, i) # 0} IN
    IF hits = {} THEN 0 ELSE Min(hits)

extract_street(s) ==
    LET m_plz == PlzSearch(s)
        \* plz_pos is m_plz.start(): a match at the very start gives 0, which is falsy
        pre == normalize_spaces(IF m_plz > 1 THEN strip(SubSeq(s, 1, m_plz - 1)) ELSE s)
        m1 == StreetWordSearch(pre)
        m2 == WordNumberSearch(pre)
    IN  IF m1 # 0 THEN normalize_spaces(From(pre, m1))
        ELSE IF m2 # 0 THEN normalize_spaces(SubSeq(pre, m2, WordNumberAt(pre, m2) - 1))
        ELSE IF pre # <<>> /\ CountWordsFrom(pre, 1) <= 4 THEN pre
        ELSE <<>>

-----------------------------------------------------------------------------
\* The end marker <PositionBox> <AdrNr> <Rhyt>

NoMatch == [ok |-> FALSE, pre |-> <<>>, pos |-> <<>>, adr |-> <<>>, rh |-> <<>>]

\* (\d+/\d+\.\d+)\s+(\d+)\s+(\d+)\s*$ at position i.  Every repetition is
\* followed by a character outside its class, so each takes its whole run.
EndMarkerAt(s, i) ==
    LET a == RunEnd(s, i, Digits)
        b == RunEnd(s, a + 1, Digits)
        c == RunEnd(s, b + 1, Digits)
        d == RunEnd(s, c, Spaces)
        e == RunEnd(s, d, Digits)
        f == RunEnd(s, e, Spaces)
        g == RunEnd(s, f, Digits)
    IN  IF /\ a > i /\ a <= Len(s) /\ s[a] = Slash
           /\ b > a + 1 /\ b <= Len(s) /\ s[b] = Dot
           /\ c > b + 1
           /\ d > c
           /\ e > d
           /\ f > e
           /\ g > f
           /\ AllSpacesFrom(s, g)
        THEN [ok |-> TRUE, pre |-> SubSeq(s, 1, i - 1), pos |-> SubSeq(s, i, c - 1),
              adr |-> SubSeq(s, d, e - 1), rh |-> SubSeq(s, f, g - 1)]
        ELSE NoMatch

\* parse_records_from_text: end_re.search(line), the leftmost position that matches
end_re_search(line) ==
    LET hits == {i \in 1..Len(line) : EndMarkerAt(line, i).ok} IN
    IF hits = {} THEN NoMatch ELSE EndMarkerAt(line, Min(hits))

\* "." matches every character but the line break: the lengths pre can have
DotRun(s) == 0..(RunEndNot(s, 1, {LineBreak}) - 1)

\* ^(?P<pre>.*) greedy: pre as long as it can be
end_re_match_greedy(last) ==
    LET hits == {n \in DotRun(last) : EndMarkerAt(last, n + 1).ok} IN
    IF hits = {} THEN NoMatch ELSE EndMarkerAt(last, Max(hits) + 1)

\* parse_block: ^(?P<pre>.*?) followed by the end marker.  pre is lazy: it grows
\* one character at a time, and "." stops at a line break.
end_re_match(last) ==
    LET hits == {n \in DotRun(last) : EndMarkerAt(last, n + 1).ok} IN
    IF hits = {} THEN NoMatch ELSE EndMarkerAt(last, Min(hits) + 1)

-----------------------------------------------------------------------------
\* parse_block

\* Spaltenreihenfolge fix
COLUMNS == <<"Firma", "Ansprechperson", "Telefon", "Strasse", "PLZ / Ort", "Artikel",
             "Bemerkung", "Position Box", "Adr.-Nr.", "Rhythmus">>

\* re.fullmatch(r"\d{2,6}", l.strip())
IsShortNumber(l) ==
    LET t == strip(l) IN
    /\ Len(t) >= 2
    /\ Len(t) <= 6
    /\ \A k \in 1..Len(t) : t[k] \in Digits

\* re.search(r"(strasse|straße|weg|platz|gasse|ring|allee)\b", l, re.IGNORECASE)
HasStreetWord(l) ==
    \E i \in 1..Len(l) : \E n \in 1..Len(STREET_WORDS) :
        /\ StartsWithNoCaseAt(l, i, STREET_WORDS[n])
        /\ WordBoundary(l, i + Len(STREET_WORDS[n]))

\* for l in cleaned_lines: if re.search(<phone pattern>, l): contact_line = l; break
RECURSIVE FirstPhoneLine(_)
FirstPhoneLine(ls) ==
    IF ls = <<>> THEN <<>>
    ELSE IF PhoneSearchFrom(Head(ls), 1) # 0 THEN Head(ls)
    ELSE FirstPhoneLine(Tail(ls))

\* for l in cleaned_lines: if re.search(<street words>, l): street_candidate = l; break
RECURSIVE FirstStreetLine(_)
FirstStreetLine(ls) ==
    IF ls = <<>> THEN <<>>
    ELSE IF HasStreetWord(Head(ls)) THEN Head(ls)
    ELSE FirstStreetLine(Tail(ls))

\* \b<pos>\b\s+<adr>\s+<rh>\s*$ at position i, the three being literals
LiteralMarkerAt(s, i, pos, adr, rh) ==
    LET a == i + Len(pos)
        b == RunEnd(s, a, Spaces)
        c == RunEnd(s, b + Len(adr), Spaces)
    IN  /\ WordBoundary(s, i)
        /\ StartsWithAt(s, i, pos)
        /\ WordBoundary(s, a)
        /\ b > a
        /\ StartsWithAt(s, b, adr)
        /\ c > b + Len(adr)
        /\ StartsWithAt(s, c, rh)
        /\ AllSpacesFrom(s, c + Len(rh))

\* re.sub of that pattern by "": the text before the leftmost match, s without one
CutMarker(s, pos, adr, rh) ==
    LET hits == {i \in 1..Len(s) : LiteralMarkerAt(s, i, pos, adr, rh)} IN
    IF hits = {} THEN s ELSE SubSeq(s, 1, Min(hits) - 1)

\* parse_block with the anchored pattern's pre made greedy
parse_block_end_greedy(block_lines) == end_re_match_greedy(block_lines[Len(block_lines)])

\* parse_block: m_end, the match of the anchored end pattern on the last line
parse_block_end(block_lines) == end_re_match(block_lines[Len(block_lines)])

parse_block(block_lines) ==
    LET full == normalize_spaces(join(<<Space>>, block_lines))
        m_end == parse_block_end(block_lines)
        pos_box == IF m_end.ok THEN m_end.pos ELSE <<>>
        adr == IF m_end.ok THEN m_end.adr ELSE <<>>
        rh == IF m_end.ok THEN m_end.rh ELSE <<>>
        pre_last == IF m_end.ok THEN normalize_spaces(m_end.pre) ELSE <<>>
        firma == normalize_spaces(block_lines[1])
        Keep(l) == ~IsShortNumber(l)
        cleaned_lines == SelectSeq(Tail(block_lines), Keep)
        contact_line == FirstPhoneLine(cleaned_lines)
        telefon == IF contact_line # <<>> THEN extract_phones(contact_line)
                   ELSE extract_phones(full)
        ansprech == IF contact_line # <<>> THEN extract_contact_name(contact_line) ELSE <<>>
        artikel == extract_article(full)
        plz_ort == split_plz_ort(full)
        street_candidate == FirstStreetLine(cleaned_lines)
        strasse == extract_street(IF street_candidate # <<>> THEN street_candidate ELSE full)
        after == strip(From(full, find(full, artikel) + Len(artikel)))
        bemerkung == IF artikel # <<>>
                     THEN IF pos_box # <<>>
                          THEN strip(CutMarker(after, pos_box, adr, rh))
                          ELSE after
                     ELSE pre_last
    IN  [c \in {COLUMNS[k] : k \in 1..Len(COLUMNS)} |->
            CASE c = "Firma" -> firma
              [] c = "Ansprechperson" -> ansprech
              [] c = "Telefon" -> telefon
              [] c = "Strasse" -> strasse
              [] c = "PLZ / Ort" -> plz_ort
              [] c = "Artikel" -> artikel
              [] c = "Bemerkung" -> normalize_spaces(bemerkung)
              [] c = "Position Box" -> pos_box
              [] c = "Adr.-Nr." -> adr
              [] c = "Rhythmus" -> rh]

-----------------------------------------------------------------------------
\* parse_records_from_text

\* only the first "Tour " rule, the one that asks for "Gesamt"
IsNoiseGesamtOnly(line) ==
    \* \/ Contains(line, "Tourenliste per:")
    \/ Contains(line, <<84,111,117,114,101,110,108,105,115,116,101,32,112,101,114,58>>)
    \* \/ startswith(line, "103_Tourenliste")
    \/ startswith(line, <<49,48,51,95,84,111,117,114,101,110,108,105,115,116,101>>)
    \* \/ startswith(line, "Firma Ansprech")
    \/ startswith(line, <<70,105,114,109,97,32,65,110,115,112,114,101,99,104>>)
    \* \/ (startswith(line, "Tour ") /\ Contains(line, "Gesamt"))
    \/ (startswith(line, <<84,111,117,114,32>>) /\ Contains(line, <<71,101,115,97,109,116>>))
    \* \/ Contains(line, "Seite:")
    \/ Contains(line, <<83,101,105,116,101,58>>)

\* Kopf/Fuss raus: the six tests on the stripped line, in the order of the source
IsNoise(line) ==
    \* \/ Contains(line, "Tourenliste per:")
    \/ Contains(line, <<84,111,117,114,101,110,108,105,115,116,101,32,112,101,114,58>>)
    \* \/ startswith(line, "103_Tourenliste")
    \/ startswith(line, <<49,48,51,95,84,111,117,114,101,110,108,105,115,116,101>>)
    \* \/ startswith(line, "Firma Ansprech")
    \/ startswith(line, <<70,105,114,109,97,32,65,110,115,112,114,101,99,104>>)
    \* \/ (startswith(line, "Tour ") /\ Contains(line, "Gesamt"))
    \/ (startswith(line, <<84,111,117,114,32>>) /\ Contains(line, <<71,101,115,97,109,116>>))
    \* \/ (startswith(line, "Tour ") /\ ~Contains(line, "Gesamt"))
    \/ (startswith(line, <<84,111,117,114,32>>) /\ ~Contains(line, <<71,101,115,97,109,116>>))
    \* \/ Contains(line, "Seite:")
    \/ Contains(line, <<83,101,105,116,101,58>>)

\* the line the loop looks at, stripped
CurLine == strip(all_lines[li + 1])

Scanning == pc = "scan" /\ li < Len(all_lines)

\* if not line: continue
SkipBlank ==
    /\ Scanning
    /\ CurLine = <<>>
    /\ li' = li + 1
    /\ UNCHANGED <<pages, pg, all_lines, buf, blocks, rows, df, ui, pc, text, out, result>>

\* a header or footer line: continue
SkipNoise ==
    /\ Scanning
    /\ CurLine # <<>>
    /\ IsNoise(CurLine)
    /\ li' = li + 1
    /\ UNCHANGED <<pages, pg, all_lines, buf, blocks, rows, df, ui, pc, text, out, result>>

\* buf.append(line), the line not being an end marker
Accumulate ==
    /\ Scanning
    /\ CurLine # <<>>
    /\ ~IsNoise(CurLine)
    /\ ~end_re_search(CurLine).ok
    /\ buf' = Append(buf, CurLine)
    /\ li' = li + 1
    /\ UNCHANGED <<pages, pg, all_lines, blocks, rows, df, ui, pc, text, out, result>>

\* the block is appended and buf is left as it is
EmitKeepBuf ==
    /\ Scanning
    /\ CurLine # <<>>
    /\ ~IsNoise(CurLine)
    /\ end_re_search(CurLine).ok
    /\ blocks' = Append(blocks, Append(buf, CurLine))
    /\ buf' = Append(buf, CurLine)
    /\ li' = li + 1
    /\ UNCHANGED <<pages, pg, all_lines, rows, df, ui, pc, text, out, result>>

\* buf.append(line); blocks.append(buf); buf = []
Emit ==
    /\ Scanning
    /\ CurLine # <<>>
    /\ ~IsNoise(CurLine)
    /\ end_re_search(CurLine).ok
    /\ blocks' = Append(blocks, Append(buf, CurLine))
    /\ buf' = <<>>
    /\ li' = li + 1
    /\ UNCHANGED <<pages, pg, all_lines, rows, df, ui, pc, text, out, result>>

\* the lines still in buf are returned as a last block
ReturnBlocksFlush ==
    /\ pc = "scan"
    /\ li = Len(all_lines)
    /\ blocks' = IF buf # <<>> THEN Append(blocks, buf) ELSE blocks
    /\ pc' = "segmented"
    /\ UNCHANGED <<pages, pg, all_lines, li, buf, rows, df, ui, text, out, result>>

\* return blocks: what is left in buf is not returned
ReturnBlocks ==
    /\ pc = "scan"
    /\ li = Len(all_lines)
    /\ pc' = "segmented"
    /\ UNCHANGED <<pages, pg, all_lines, li, buf, blocks, rows, df, ui, text, out, result>>

-----------------------------------------------------------------------------
\* parse_tourenliste and the Streamlit page

\* txt = page.extract_text() or ""; all_lines.extend(txt.split("\n"))
ExtractPage ==
    /\ pc = "extract"
    /\ pg < Len(pages)
    /\ all_lines' = all_lines \o split_lines(pages[pg + 1])
    /\ pg' = pg + 1
    /\ UNCHANGED <<pages, li, buf, blocks, rows, df, ui, pc, text, out, result>>

\* blocks = parse_records_from_text(all_lines): blocks = [], buf = []
CallSegmenter ==
    /\ pc = "extract"
    /\ pg = Len(pages)
    /\ pc' = "scan"
    /\ li' = 0
    /\ buf' = <<>>
    /\ blocks' = <<>>
    /\ UNCHANGED <<pages, pg, all_lines, rows, df, ui, text, out, result>>

\* rows = [parse_block(b) for b in blocks]
ParseBlocks ==
    /\ pc = "segmented"
    /\ rows' = [k \in 1..Len(blocks) |-> parse_block(blocks[k])]
    /\ pc' = "parsed"
    /\ UNCHANGED <<pages, pg, all_lines, li, buf, blocks, df, ui, text, out, result>>

\* str.match(r"^\d+/\d+\.\d+$"): "$" also matches before a final line break
PositionBoxValid(s) ==
    LET a == RunEnd(s, 1, Digits)
        b == RunEnd(s, a + 1, Digits)
        c == RunEnd(s, b + 1, Digits)
    IN  /\ a > 1 /\ a <= Len(s) /\ s[a] = Slash
        /\ b > a + 1 /\ b <= Len(s) /\ s[b] = Dot
        /\ c > b + 1
        /\ (c = Len(s) + 1 \/ (c = Len(s) /\ s[c] = LineBreak))

\* the frame is returned as it was built, no row taken out
KeepAllRows(rs) == rs

\* df.drop_duplicates() slipped into the selection
RECURSIVE DropDuplicateRows(_, _)
DropDuplicateRows(rs, seen) ==
    IF rs = <<>> THEN <<>>
    ELSE IF Head(rs) \in seen \/ ~PositionBoxValid(Head(rs)["Position Box"])
         THEN DropDuplicateRows(Tail(rs), seen)
    ELSE <<Head(rs)>> \o DropDuplicateRows(Tail(rs), seen \cup {Head(rs)})

ValidRowsDeduplicated(rs) == DropDuplicateRows(rs, {})

\* df[df["Position Box"].str.match(...)].reset_index(drop=True)
ValidRows(rs) ==
    LET Valid(r) == PositionBoxValid(r["Position Box"]) IN SelectSeq(rs, Valid)

NoFrame == [columns |-> <<>>, rows |-> <<>>]

\* df = pd.DataFrame(rows) ... return df, for at least one row
Assemble ==
    /\ pc = "parsed"
    /\ rows # <<>>
    /\ df' = [columns |-> COLUMNS,
              rows |-> ValidRows([k \in 1..Len(rows) |->
                          [rows[k] EXCEPT !["Firma"] = normalize_spaces(@)]])]
    /\ pc' = "returned"
    /\ UNCHANGED <<pages, pg, all_lines, li, buf, blocks, rows, ui, text, out, result>>

\* pd.DataFrame([]) has no column: df["Firma"] raises KeyError, which nothing catches
AssembleRaise ==
    /\ pc = "parsed"
    /\ rows = <<>>
    /\ pc' = "raised"
    /\ ui' = [count |-> -1, view |-> "KeyError"]
    /\ UNCHANGED <<pages, pg, all_lines, li, buf, blocks, rows, df, text, out, result>>

\* st.success(...), then the table and the download, or st.warning(...)
Render ==
    /\ pc = "returned"
    /\ ui' = [count |-> Len(df.rows),
              view |-> IF Len(df.rows) > 0 THEN "dataframe" ELSE "warning"]
    /\ pc' = "shown"
    /\ UNCHANGED <<pages, pg, all_lines, li, buf, blocks, rows, df, text, out, result>>

-----------------------------------------------------------------------------
\* extract_phones and extract_article applied on their own

\* out and the value returned by extract_phones(text)
CallExtractPhones ==
    /\ pc = "call_phones"
    /\ out' = phones_out(text)
    /\ result' = extract_phones(text)
    /\ pc' = "ret_phones"
    /\ UNCHANGED <<pages, pg, all_lines, li, buf, blocks, rows, df, ui, text>>

\* the value returned by extract_article(text)
CallExtractArticle ==
    /\ pc = "call_article"
    /\ result' = extract_article(text)
    /\ pc' = "ret_article"
    /\ UNCHANGED <<pages, pg, all_lines, li, buf, blocks, rows, df, ui, text, out>>

-----------------------------------------------------------------------------
\* Inputs

MaxPages == 2

MaxBlocks == 3

MaxPhoneParts == 3

MaxArticleParts == 3

RECURSIVE SeqsUpTo(_, _)
SeqsUpTo(S, n) ==
    IF n = 0 THEN {<<>>}
    ELSE LET shorter == SeqsUpTo(S, n - 1) IN
         shorter \cup {Append(q, x) : q \in shorter, x \in S}

\* the texts made of the parts of ps, one after the other
RECURSIVE Concat(_)
Concat(ps) == IF ps = <<>> THEN <<>> ELSE Head(ps) \o Concat(Tail(ps))

\* the five lines of the record of Acme Logistics AG
AcmeLines == <<
    \* "Acme Logistics AG",
    <<65,99,109,101,32,76,111,103,105,115,116,105,99,115,32,65,71>>,
    \* "Hans Meier +41 71 123 45 67",
    <<72,97,110,115,32,77,101,105,101,114,32,43,52,49,32,55,49,32,49,50,51,32,52,53,32,54,55>>,
    \* "Kradolfstrasse 54 8583 Sulgen",
    <<75,114,97,100,111,108,102,115,116,114,97,115,115,101,32,53,52,32,56,53,56,51,32,83,117,108,103,101,110>>,
    \* "KB Werkstatt",
    <<75,66,32,87,101,114,107,115,116,97,116,116>>,
    \* "86/12.0 4711 2" >>
    <<56,54,47,49,50,46,48,32,52,55,49,49,32,50>> >>

\* page texts as extract_text() gives them; <<>> is a page without text
PagePool == {
    <<>>,
    join(<<LineBreak>>, AcmeLines),
    \* "103_Tourenliste\nFirma Ansprech Telefon\nTour 86 1/2.3 4 5\nBeta GmbH\n  71/3.5 12 4  ",
    <<49,48,51,95,84,111,117,114,101,110,108,105,115,116,101,10,70,105,114,109,97,32,65,110,115,112,114,101,99,104,32,84,101,108,101,102,111,110,10,84,111,117,114,32,56,54,32,49,47,50,46,51,32,52,32,53,10,66,101,116,97,32,71,109,98,72,10,32,32,55,49,47,51,46,53,32,49,50,32,52,32,32>>,
    \* "Gamma 186/12.0 4711 2\nTour 7 Gesamt 3\nDelta AG\n8590",
    <<71,97,109,109,97,32,49,56,54,47,49,50,46,48,32,52,55,49,49,32,50,10,84,111,117,114,32,55,32,71,101,115,97,109,116,32,51,10,68,101,108,116,97,32,65,71,10,56,53,57,48>>,
    \* "x Seite: 2 9/9.9 9 9\nGB 2023 KB 1/2.3/4.5 6 7",
    <<120,32,83,101,105,116,101,58,32,50,32,57,47,57,46,57,32,57,32,57,10,71,66,32,50,48,50,51,32,75,66,32,49,47,50,46,51,47,52,46,53,32,54,32,55>>,
    \* "Hof 3\n1/2 3 4\nTourenliste per: Woche 7",
    <<72,111,102,32,51,10,49,47,50,32,51,32,52,10,84,111,117,114,101,110,108,105,115,116,101,32,112,101,114,58,32,87,111,99,104,101,32,55>>,
    \* no-break spaces (\xa0), a line of whitespace only, and an end marker in Arabic-Indic digits
    \* (\u0661..) with an em space (\u2003) in it, between a file separator and a next-line character
    \* "Zeta AG\n\xa0\nFrau\xa0Épée 071\xa0123\xa045\xa067\nHauptſtraſſe 5a 2000 Neuchâtel\n\x1c\u0661/\u0662.\u0663 \u0664\u2003\u0665\x85"
    <<90,101,116,97,32,65,71,10,160,10,70,114,97,117,160,201,112,233,101,32,48,55,49,160,49,50,51,160,52,53,160,54,55,10,72,97,117,112,116,383,116,114,97,383,383,101,32,53,97,32,50,48,48,48,32,78,101,117,99,104,226,116,101,108,10,28,1633,47,1634,46,1635,32,1636,8195,1637,133>>
}

\* blocks handed to parse_block, with and without an end marker on the last line
BlockPool == {
    AcmeLines,
    \* << "Beta GmbH", "71/3.5 12 4" >>,
    << <<66,101,116,97,32,71,109,98,72>>, <<55,49,47,51,46,53,32,49,50,32,52>> >>,
    \* << "Gamma 186/12.0 4711 2" >>,
    << <<71,97,109,109,97,32,49,56,54,47,49,50,46,48,32,52,55,49,49,32,50>> >>,
    \* << "Delta AG", "8590" >>,
    << <<68,101,108,116,97,32,65,71>>, <<56,53,57,48>> >>,
    \* << "Hof 3", "1/2 3 4" >>,
    << <<72,111,102,32,51>>, <<49,47,50,32,51,32,52>> >>,
    \* << "x 1/2.3 4 5 KB" >>,
    << <<120,32,49,47,50,46,51,32,52,32,53,32,75,66>> >>,
    \* << "Zeta AG", "Hauptſtraſſe 5a 2000 Neuchâtel", "\u0661/\u0662.\u0663 \u0664\u2003\u0665" >>
    << <<90,101,116,97,32,65,71>>, <<72,97,117,112,116,383,116,114,97,383,383,101,32,53,97,32,50,48,48,48,32,78,101,117,99,104,226,116,101,108>>, <<1633,47,1634,46,1635,32,1636,8195,1637>> >>
}

\* parts of the texts handed to extract_phones (\xa0 is the no-break space)
PhoneParts == {
    \* "071 123 45 67",
    <<48,55,49,32,49,50,51,32,52,53,32,54,55>>,
    \* "071 123 45 67 / ",
    <<48,55,49,32,49,50,51,32,52,53,32,54,55,32,47,32>>,
    \* "071\t123  45 67, ",
    <<48,55,49,9,49,50,51,32,32,52,53,32,54,55,44,32>>,
    \* "+41 71 123 45 67 / ",
    <<43,52,49,32,55,49,32,49,50,51,32,52,53,32,54,55,32,47,32>>,
    \* "+41 71 123 45 67",
    <<43,52,49,32,55,49,32,49,50,51,32,52,53,32,54,55>>,
    \* "071\xa0123\xa045\xa067; ",
    <<48,55,49,160,49,50,51,160,52,53,160,54,55,59,32>>,
    \* "Hans ",
    <<72,97,110,115,32>>,
    \* " "
    <<32>>
}

\* parts of the texts handed to extract_article
\* ArticleParts == { "KB", "GB 2023", "DGB 2023", "D", "GB", " 2023", " ", "x" }
ArticleParts == { <<75,66>>, <<71,66,32,50,48,50,51>>, <<68,71,66,32,50,48,50,51>>, <<68>>, <<71,66>>, <<32,50,48,50,51>>, <<32>>, <<120>> }

-----------------------------------------------------------------------------
\* A conversion run: a PDF is uploaded and parse_tourenliste is called on it

Init ==
    /\ pages \in SeqsUpTo(PagePool, MaxPages)
    /\ pg = 0
    /\ all_lines = <<>>
    /\ li = 0
    /\ buf = <<>>
    /\ blocks = <<>>
    /\ rows = <<>>
    /\ df = NoFrame
    /\ ui = [count |-> 0, view |-> "none"]
    /\ pc = "extract"
    /\ text = <<>>
    /\ out = <<>>
    /\ result = <<>>

Next ==
    \/ ExtractPage
    \/ CallSegmenter
    \/ SkipBlank
    \/ SkipNoise
    \/ Accumulate
    \/ Emit
    \/ ReturnBlocks
    \/ ParseBlocks
    \/ Assemble
    \/ AssembleRaise
    \/ Render

Spec == Init /\ [][Next]_vars

\* Field Extractor and Table Assembler on any blocks: the run from rows = [...] on
InitBlocks ==
    /\ blocks \in SeqsUpTo(BlockPool, MaxBlocks)
    /\ pc = "segmented"
    /\ pages = <<>>
    /\ pg = 0
    /\ all_lines = <<>>
    /\ li = 0
    /\ buf = <<>>
    /\ rows = <<>>
    /\ df = NoFrame
    /\ ui = [count |-> 0, view |-> "none"]
    /\ text = <<>>
    /\ out = <<>>
    /\ result = <<>>

NextBlocks ==
    \/ ParseBlocks
    \/ Assemble
    \/ AssembleRaise
    \/ Render

SpecBlocks == InitBlocks /\ [][NextBlocks]_vars

\* extract_phones on its own
InitPhones ==
    /\ text \in {Concat(ps) : ps \in SeqsUpTo(PhoneParts, MaxPhoneParts)}
    /\ pc = "call_phones"
    /\ pages = <<>>
    /\ pg = 0
    /\ all_lines = <<>>
    /\ li = 0
    /\ buf = <<>>
    /\ blocks = <<>>
    /\ rows = <<>>
    /\ df = NoFrame
    /\ ui = [count |-> 0, view |-> "none"]
    /\ out = <<>>
    /\ result = <<>>

NextPhones == CallExtractPhones

SpecPhones == InitPhones /\ [][NextPhones]_vars

\* extract_article on its own
InitArticle ==
    /\ text \in {Concat(ps) : ps \in SeqsUpTo(ArticleParts, MaxArticleParts)}
    /\ pc = "call_article"
    /\ pages = <<>>
    /\ pg = 0
    /\ all_lines = <<>>
    /\ li = 0
    /\ buf = <<>>
    /\ blocks = <<>>
    /\ rows = <<>>
    /\ df = NoFrame
    /\ ui = [count |-> 0, view |-> "none"]
    /\ out = <<>>
    /\ result = <<>>

NextArticle == CallExtractArticle

SpecArticle == InitArticle /\ [][NextArticle]_vars

-----------------------------------------------------------------------------
\* Properties

\* a header or footer line as the specification describes it
ClaimedNoise(line) ==
    \* \/ Contains(line, "Tourenliste per:")
    \/ Contains(line, <<84,111,117,114,101,110,108,105,115,116,101,32,112,101,114,58>>)
    \* \/ Contains(line, "Seite:")
    \/ Contains(line, <<83,101,105,116,101,58>>)
    \* \/ startswith(line, "103_Tourenliste")
    \/ startswith(line, <<49,48,51,95,84,111,117,114,101,110,108,105,115,116,101>>)
    \* \/ startswith(line, "Firma Ansprech")
    \/ startswith(line, <<70,105,114,109,97,32,65,110,115,112,114,101,99,104>>)
    \* \/ startswith(line, "Tour ")
    \/ startswith(line, <<84,111,117,114,32>>)

\* the stripped lines of ls that are neither blank nor noise, in order
RetainedOf(ls) ==
    LET stripped == [k \in 1..Len(ls) |-> strip(ls[k])]
        Retained(l) == l # <<>> /\ ~ClaimedNoise(l)
    IN  SelectSeq(stripped, Retained)

\* the line matches the end-marker pattern
IsEndMarkerLine(l) == end_re_search(l).ok

\* ^\d+/\d+\.\d+$ read as: digits "/" digits "." digits and nothing else
ExactPositionBox(s) ==
    \E a \in 2..Len(s) : \E b \in (a + 2)..(Len(s) - 1) :
        /\ s[a] = Slash
        /\ s[b] = Dot
        /\ \A k \in (1..Len(s)) \ {a, b} : s[k] \in Digits

\* the positions at which p occurs in s
Occurrences(s, p) == {i \in 1..(Len(s) - Len(p) + 1) : StartsWithAt(s, i, p)}

\* p occurs somewhere in s
Occurs(s, p) == \E i \in 1..Len(s) : \E j \in i..Len(s) : SubSeq(s, i, j) = p

SegmenterCalled == pc \in {"scan", "segmented", "parsed", "returned", "raised", "shown"}

SegmenterReturned == pc \in {"segmented", "parsed", "returned", "raised", "shown"}

BlocksParsed == pc \in {"parsed", "returned", "raised", "shown"}

TableReturned == pc \in {"returned", "shown"}

\* C1: at every point of the scan the number of emitted blocks is the number of
\* retained (non-blank, non-noise) lines seen that match the end marker; an emission
\* leaves the buffer empty; the blocks one after the other, followed by the buffer,
\* are the retained lines seen, so no line occurrence lies in two blocks and the
\* blocks form a prefix of the retained lines.
C1_OneBlockPerEndMarker ==
    SegmenterCalled =>
        LET retained == RetainedOf(SubSeq(all_lines, 1, li))
            marks == {k \in 1..Len(retained) : IsEndMarkerLine(retained[k])}
        IN  /\ Len(blocks) = Cardinality(marks)
            /\ Concat(blocks) \o buf = retained
            /\ (Len(retained) \in marks => buf = <<>>)

\* C1 witness: a second block has just been emitted and the buffer is empty
C1_Witness ==
    /\ pc = "scan"
    /\ li >= 1
    /\ IsEndMarkerLine(strip(all_lines[li]))
    /\ ~ClaimedNoise(strip(all_lines[li]))
    /\ Len(blocks) = 2
    /\ Len(blocks[2]) >= 2
    /\ buf = <<>>

\* C2: a document without any end-marker line makes parse_tourenliste return a table
\* of zero rows with the ten fixed columns, and the page shows the warning; nothing
\* is raised.
C2_NoRecordsIsAWarning ==
    (blocks = <<>> /\ pc \in {"returned", "raised", "shown"}) =>
        /\ pc # "raised"
        /\ df = [columns |-> COLUMNS, rows |-> <<>>]
        /\ (pc = "shown" => ui = [count |-> 0, view |-> "warning"])

\* C3: the five lines of Acme Logistics AG are one block, and its record has
\* Company "Acme Logistics AG", Phone "+41 71 123 45 67", Street "Kradolfstrasse 54",
\* PostalCityText "8583 Sulgen", ArticleCode "KB", PositionBox "86/12.0",
\* AddressNumber "4711" and Rhythm "2".
C3_AcmeRecord ==
    (all_lines = AcmeLines /\ BlocksParsed) =>
        /\ blocks = <<AcmeLines>>
        /\ Len(rows) = 1
        \* /\ rows[1]["Firma"] = "Acme Logistics AG"
        /\ rows[1]["Firma"] = <<65,99,109,101,32,76,111,103,105,115,116,105,99,115,32,65,71>>
        \* /\ rows[1]["Telefon"] = "+41 71 123 45 67"
        /\ rows[1]["Telefon"] = <<43,52,49,32,55,49,32,49,50,51,32,52,53,32,54,55>>
        \* /\ rows[1]["Strasse"] = "Kradolfstrasse 54"
        /\ rows[1]["Strasse"] = <<75,114,97,100,111,108,102,115,116,114,97,115,115,101,32,53,52>>
        \* /\ rows[1]["PLZ / Ort"] = "8583 Sulgen"
        /\ rows[1]["PLZ / Ort"] = <<56,53,56,51,32,83,117,108,103,101,110>>
        \* /\ rows[1]["Artikel"] = "KB"
        /\ rows[1]["Artikel"] = <<75,66>>
        \* /\ rows[1]["Position Box"] = "86/12.0"
        /\ rows[1]["Position Box"] = <<56,54,47,49,50,46,48>>
        \* /\ rows[1]["Adr.-Nr."] = "4711"
        /\ rows[1]["Adr.-Nr."] = <<52,55,49,49>>
        \* /\ rows[1]["Rhythmus"] = "2"
        /\ rows[1]["Rhythmus"] = <<50>>

\* C4: every row of the table parse_tourenliste returns has a Position Box that is
\* digits "/" digits "." digits, with nothing before or after.
C4_PositionBoxFormat ==
    TableReturned =>
        \A j \in 1..Len(df.rows) : ExactPositionBox(df.rows[j]["Position Box"])

\* C4 witness: a table is shown that kept a record and left another one out
C4_Witness ==
    /\ pc = "shown"
    /\ Len(df.rows) >= 1
    /\ Len(df.rows) < Len(rows)

\* C5: no line held in the buffer matches the end marker; every emitted block ends
\* with an end-marker line; what is in the buffer when the input ends is in no
\* block; and every row of the table is the record of an emitted block.
C5_UnterminatedNeverEmitted ==
    /\ \A k \in 1..Len(buf) : ~IsEndMarkerLine(buf[k])
    /\ \A k \in 1..Len(blocks) :
          /\ blocks[k] # <<>>
          /\ IsEndMarkerLine(blocks[k][Len(blocks[k])])
    /\ (SegmenterReturned => Concat(blocks) \o buf = RetainedOf(all_lines))
    /\ (BlocksParsed => Len(rows) = Len(blocks))
    /\ (TableReturned =>
          \A j \in 1..Len(df.rows) : \E k \in 1..Len(blocks) :
              df.rows[j] = parse_block(blocks[k]))

\* C5 witness: the input ended with lines in the buffer, and a table is shown
C5_Witness ==
    /\ pc = "shown"
    /\ buf # <<>>
    /\ df.rows # <<>>
    /\ Len(df.rows) = Len(blocks)

\* the two numbers the phone claim is checked on, one that begins with a digit
\* and one that begins with "+"
\* PhoneTokens == { "071 123 45 67", "+41 71 123 45 67" }
PhoneTokens == { <<48,55,49,32,49,50,51,32,52,53,32,54,55>>, <<43,52,49,32,55,49,32,49,50,51,32,52,53,32,54,55>> }

\* t occurs in s at i and again at j, with nothing but whitespace (or nothing) between
OnlyWhitespaceBetween(s, i, j, t) ==
    /\ i + Len(t) <= j
    /\ \A k \in (i + Len(t))..(j - 1) : s[k] \in Spaces

\* C6 as stated: when the same phone token occurs twice in the text, whatever is
\* between the two occurrences, the value returned holds that token exactly once.
C6_TokenTwiceListedOnce ==
    pc = "ret_phones" =>
        \A t \in PhoneTokens :
            Cardinality(Occurrences(text, t)) >= 2 =>
                Cardinality(Occurrences(result, t)) = 1

\* C6 amended: the value returned is the whitespace-normalised matches of the phone
\* pattern, every distinct one exactly once, in the order of the first matches,
\* joined by " / "; so a token that is matched twice is one entry of the list.  Of
\* two occurrences with only whitespace (or nothing) between them, those of a token
\* that begins with "+" are two matches and the token is listed once, and those of
\* a token that begins with a digit lie in one match: one entry holds the number twice.
C6_MatchesListedOnce ==
    pc = "ret_phones" =>
        LET found == phone_findall(text)
            normed == [k \in 1..Len(found) |-> normalize_spaces(found[k])]
            First(p) == Min({k \in 1..Len(normed) : normed[k] = p})
            Listed(t) == {k \in 1..Len(out) : out[k] = t}
        IN  /\ \A i, j \in 1..Len(out) : i # j => out[i] # out[j]
            /\ {out[k] : k \in 1..Len(out)} = {normed[k] : k \in 1..Len(normed)}
            /\ \A i, j \in 1..Len(out) : i < j => First(out[i]) < First(out[j])
            \* /\ result = join(" / ", out)
            /\ result = join(<<32,47,32>>, out)
            /\ \A t \in PhoneTokens :
                  /\ Cardinality({k \in 1..Len(normed) : normed[k] = t}) >= 2
                        => Cardinality(Listed(t)) = 1
                  /\ \A i, j \in Occurrences(text, t) :
                        OnlyWhitespaceBetween(text, i, j, t) =>
                            IF t[1] = Plus
                            THEN Len(found) >= 2 /\ Cardinality(Listed(t)) = 1
                            ELSE \E k \in 1..Len(out) :
                                    Cardinality(Occurrences(out[k], t)) >= 2

\* C6 witness: the number with "+" twice, a blank between: two matches, listed once
C6_Witness ==
    /\ pc = "ret_phones"
    \* /\ text = "+41 71 123 45 67 +41 71 123 45 67"
    /\ text = <<43,52,49,32,55,49,32,49,50,51,32,52,53,32,54,55,32,43,52,49,32,55,49,32,49,50,51,32,52,53,32,54,55>>
    /\ Len(phone_findall(text)) = 2
    \* /\ out = << "+41 71 123 45 67" >>
    /\ out = << <<43,52,49,32,55,49,32,49,50,51,32,52,53,32,54,55>> >>
    \* /\ result = "+41 71 123 45 67"
    /\ result = <<43,52,49,32,55,49,32,49,50,51,32,52,53,32,54,55>>

\* C7: extract_article returns the first of "DGB 2023", "GB 2023", "KB" that occurs
\* anywhere in the text, wherever the occurrences are, and "" when none occurs.
C7_ArticlePriority ==
    pc = "ret_article" =>
        \* result = IF Occurs(text, "DGB 2023") THEN "DGB 2023"
        result = IF Occurs(text, <<68,71,66,32,50,48,50,51>>) THEN <<68,71,66,32,50,48,50,51>>
                 \* ELSE IF Occurs(text, "GB 2023") THEN "GB 2023"
                 ELSE IF Occurs(text, <<71,66,32,50,48,50,51>>) THEN <<71,66,32,50,48,50,51>>
                 \* ELSE IF Occurs(text, "KB") THEN "KB"
                 ELSE IF Occurs(text, <<75,66>>) THEN <<75,66>>
                 ELSE <<>>

\* C7 witness: "KB" occurs before "GB 2023", without "DGB 2023": "GB 2023" is returned
C7_Witness ==
    /\ pc = "ret_article"
    \* /\ Occurs(text, "KB")
    /\ Occurs(text, <<75,66>>)
    \* /\ Occurs(text, "GB 2023")
    /\ Occurs(text, <<71,66,32,50,48,50,51>>)
    \* /\ ~Occurs(text, "DGB 2023")
    /\ ~Occurs(text, <<68,71,66,32,50,48,50,51>>)
    \* /\ Min(Occurrences(text, "KB")) < Min(Occurrences(text, "GB 2023"))
    /\ Min(Occurrences(text, <<75,66>>)) < Min(Occurrences(text, <<71,66,32,50,48,50,51>>))
    \* /\ result = "GB 2023"
    /\ result = <<71,66,32,50,48,50,51>>

\* C8: a blank line or a noise line (it contains "Tourenliste per:" or "Seite:", or
\* starts with "103_Tourenliste", "Firma Ansprech" or "Tour ") changes neither the
\* buffer nor the blocks, end marker or not, and no such line is ever in them.
C8_NoiseNeverEntersABlock ==
    [][/\ (/\ pc = "scan"
           /\ li < Len(all_lines)
           /\ (strip(all_lines[li + 1]) = <<>> \/ ClaimedNoise(strip(all_lines[li + 1]))))
          => (buf' = buf /\ blocks' = blocks /\ li' = li + 1)
       /\ \A l \in {buf'[k] : k \in 1..Len(buf')} \cup
                  {Concat(blocks')[k] : k \in 1..Len(Concat(blocks'))} :
              l # <<>> /\ ~ClaimedNoise(l)]_vars

\* C8 witness: a noise line that ends with an end marker has just been passed over
\* while lines were waiting in the buffer, and they still are
C8_Witness ==
    /\ pc = "scan"
    /\ li >= 1
    /\ ClaimedNoise(strip(all_lines[li]))
    /\ IsEndMarkerLine(strip(all_lines[li]))
    /\ buf # <<>>
    /\ Concat(blocks) \o buf = RetainedOf(SubSeq(all_lines, 1, li - 1))

\* C9: the table is the subsequence of the parsed records whose Position Box is
\* valid, in the order of the blocks: nothing reordered, doubled, altered or lost.
C9_TableIsTheValidSubsequence ==
    TableReturned =>
        LET valid == {k \in 1..Len(rows) : ExactPositionBox(rows[k]["Position Box"])}
            Nth(j) == CHOOSE k \in valid : Cardinality({m \in valid : m <= k}) = j
        IN  /\ df.columns = COLUMNS
            /\ Len(df.rows) = Cardinality(valid)
            /\ \A j \in 1..Len(df.rows) : df.rows[j] = rows[Nth(j)]

\* C9 witness: a table of two records, the same stop twice, in the order found
C9_Witness ==
    /\ pc = "shown"
    /\ Len(df.rows) = 2
    /\ df.rows[1] = df.rows[2]
    /\ df.rows = rows

\* C10: for every emitted block the Position Box, Adr.-Nr. and Rhythmus of its
\* record are the three groups the segmenter's search captured on the last line,
\* none of them empty, and every emitted block has its row in the table.
C10_MarkerFieldsAreTheSegmentersGroups ==
    /\ BlocksParsed =>
          \A k \in 1..Len(blocks) :
              LET m == end_re_search(blocks[k][Len(blocks[k])]) IN
              /\ m.ok
              /\ rows[k]["Position Box"] = m.pos
              /\ rows[k]["Adr.-Nr."] = m.adr
              /\ rows[k]["Rhythmus"] = m.rh
              /\ m.pos # <<>> /\ m.adr # <<>> /\ m.rh # <<>>
    /\ TableReturned =>
          /\ Len(df.rows) = Len(blocks)
          /\ \A k \in 1..Len(blocks) : df.rows[k] = rows[k]

\* C10 witness: a table is shown whose second block has text before the marker
C10_Witness ==
    /\ pc = "shown"
    /\ Len(blocks) = 2
    /\ end_re_search(blocks[2][Len(blocks[2])]).pre # <<>>
    /\ Len(df.rows) = 2
====
